---- MODULE Spec2Model ----
(***************************************************************************)
(* Session and conversation store of the AI Fitness Assistant API          *)
(* (src/main.py, with update_user_profile from src/main_complex.py).       *)
(*                                                                         *)
(* Execution model.  The application is served by one asyncio event loop.  *)
(* Every endpoint is an `async def` whose body contains no `await`, so a   *)
(* handler body runs to completion without interleaving.  What does        *)
(* interleave: the request body is read before the handler is called, and  *)
(* the dependencies verify_token and get_current_user are plain `def`      *)
(* functions, each run in the thread pool and awaited.  A request is       *)
(* therefore a sequence of at most three atomic steps.                     *)
(*                                                                         *)
(* Time is counted in ticks (TicksPerSecond per second) because            *)
(* datetime.utcnow() is finer than the whole seconds a JWT `exp` carries.  *)
(***************************************************************************)
EXTENDS Integers, Sequences, FiniteSets, TLC

VARIABLES users_db, conversations_db, now, reqs, issued, resp, regLog,
          chatLog, loginLog, overlapped

vars == <<users_db, conversations_db, now, reqs, issued, resp, regLog,
          chatLog, loginLog, overlapped>>

----------------------------------------------------------------------------
(* Bounds of the model *)

MaxHalfDays == 3
MaxTurns == 3
MaxRequests == 2
MaxRegisterCalls == 2
TicksPerSecond == 2

(* Program constants *)

ACCESS_TOKEN_EXPIRE_MINUTES == 1440
SECRET_KEY == "dev-test-secret-key-for-jwt-tokens"
DefaultLimit == 50
DefaultOffset == 0

----------------------------------------------------------------------------
(* Input domains *)

None == "None"

Emails == {"alice@example.com", "Alice@example.com"}
Passwords == {"Passw0rd1", "Passw0rd2"}
FirstNames == {"Alice"}
LastNames == {"A"}
Goals == {None, "run 5k"}
Messages == {"workout", "hello"}
SuppliedConversationIds == {None, "", "thread-1"}
Contexts == {None}
ResponseTimesMs == {0}
(* A field of the PUT /profile body is left out, null or a string. *)
Omitted == "Omitted"
NewFirstNames == {Omitted, None, "Alicia"}
NewLastNames == {Omitted, None, "B"}
NewGoals == {Omitted, None, "lift"}
PageArgs == (0 - (MaxTurns + 1))..(MaxTurns + 1)
Limits == PageArgs \cup {DefaultLimit}
Offsets == PageArgs \cup {DefaultOffset}

UuidPool == <<"uuid-1", "uuid-2", "uuid-3", "uuid-4", "uuid-5", "uuid-6",
              "uuid-7", "uuid-8", "uuid-9", "uuid-10", "uuid-11", "uuid-12">>

TicksPerDay == 24 * 60 * 60 * TicksPerSecond
TicksPerHalfDay == 12 * 60 * 60 * TicksPerSecond

(* The instants at which the clock is sampled: every half day, and one tick
   after it. *)
InstantsUpTo(n) == {k * TicksPerHalfDay + j : k \in 0..n, j \in {0, 1}}

(* Noon and midnight of the first days. *)
HalfDaysUpTo(n) == {k * TicksPerHalfDay : k \in 0..n}

Slots == 1..MaxRequests

Range(f) == {f[x] : x \in DOMAIN f}

Min(S) == CHOOSE x \in S : \A y \in S : x <= y

EmptyMap == [k \in {} |-> None]

IdleRequest ==
    [pc |-> "idle", op |-> None, user_id |-> None, email |-> None,
     password |-> None]

BodyOps == {"register", "login"}
AuthOps == {"chat", "history", "stats", "profile", "update_profile"}

----------------------------------------------------------------------------
(* Utility functions *)

(* sha256 over password + salt: a one-way transform, modelled as an
   injective constructor. *)
hash_password(password) == <<"sha256", password, "fitness-app-salt">>

verify_password(password, hashed) == hash_password(password) = hashed

(* str(uuid.uuid4()): an identifier that was not handed out before. *)
uuid4(used) ==
    UuidPool[Min({i \in DOMAIN UuidPool : UuidPool[i] \notin used})]

UsedUuids ==
    DOMAIN users_db \cup DOMAIN conversations_db
    \cup UNION {{t.conversation_id : t \in Range(conversations_db[u])} :
                    u \in DOMAIN conversations_db}

(* jwt.encode turns a datetime `exp` into whole seconds since the epoch. *)
NumericDate(t) == (t \div TicksPerSecond) * TicksPerSecond

jwt_encode_rounds_up(payload, key) ==
    [user_id |-> payload.user_id, email |-> payload.email,
     exp |-> NumericDate(payload.exp + TicksPerSecond - 1), key |-> key]

jwt_encode(payload, key) ==
    [user_id |-> payload.user_id, email |-> payload.email,
     exp |-> NumericDate(payload.exp), key |-> key]

create_access_token_claims_swapped(data, t) ==
    jwt_encode([user_id |-> data.email, email |-> data.user_id,
                exp |-> t + ACCESS_TOKEN_EXPIRE_MINUTES * 60 * TicksPerSecond],
               SECRET_KEY)

create_access_token_seconds(data, t) ==
    jwt_encode([user_id |-> data.user_id, email |-> data.email,
                exp |-> t + ACCESS_TOKEN_EXPIRE_MINUTES * TicksPerSecond],
               SECRET_KEY)

create_access_token(data, t) ==
    jwt_encode([user_id |-> data.user_id, email |-> data.email,
                exp |-> t + ACCESS_TOKEN_EXPIRE_MINUTES * 60 * TicksPerSecond],
               SECRET_KEY)

(* jwt.decode: the outcomes the installed PyJWT can produce.  A token whose
   signature does not match or that cannot be parsed is refused; a token is
   accepted while the clock is before `exp` and refused from one second
   after it; within the second that starts at `exp` the releases of PyJWT
   differ (`exp < now` on whole seconds, later `exp <= now`). *)
jwt_decode_negative_leeway(token, key, t) ==
    IF token.key = None
      THEN {[error |-> "DecodeError", user_id |-> None]}
    ELSE IF token.key # key
      THEN {[error |-> "InvalidSignatureError", user_id |-> None]}
    ELSE IF t + TicksPerHalfDay < token.exp
      THEN {[error |-> None, user_id |-> token.user_id]}
    ELSE {[error |-> "ExpiredSignatureError", user_id |-> None]}

jwt_decode(token, key, t) ==
    IF token.key = None
      THEN {[error |-> "DecodeError", user_id |-> None]}
    ELSE IF token.key # key
      THEN {[error |-> "InvalidSignatureError", user_id |-> None]}
    ELSE IF t < token.exp
      THEN {[error |-> None, user_id |-> token.user_id]}
    ELSE IF t >= token.exp + TicksPerSecond
      THEN {[error |-> "ExpiredSignatureError", user_id |-> None]}
    ELSE {[error |-> None, user_id |-> token.user_id],
          [error |-> "ExpiredSignatureError", user_id |-> None]}

(* verify_token: every PyJWTError and a missing user_id claim become the
   same 401. *)
token_outcome_names_cause(d) ==
    IF d.error # None
      THEN [status |-> 401, detail |-> d.error, user_id |-> None]
    ELSE IF d.user_id = None
      THEN [status |-> 401, detail |-> "Invalid credentials", user_id |-> None]
    ELSE [status |-> 200, detail |-> None, user_id |-> d.user_id]

token_outcome(d) ==
    IF d.error # None \/ d.user_id = None
      THEN [status |-> 401, detail |-> "Invalid credentials", user_id |-> None]
      ELSE [status |-> 200, detail |-> None, user_id |-> d.user_id]

verify_token_reads_email(token, t) ==
    {IF token_outcome(d).status = 200
       THEN [token_outcome(d) EXCEPT !.user_id = token.email]
       ELSE token_outcome(d) :
     d \in jwt_decode(token, SECRET_KEY, t)}

verify_token(token, t) ==
    {token_outcome(d) : d \in jwt_decode(token, SECRET_KEY, t)}

(* generate_ai_response: keyword lookup, token count = number of words. *)
generate_ai_response(message) ==
    IF message = "workout"
      THEN [text |-> "Here's your personalized workout", tokens |-> 28]
      ELSE [text |-> "As your AI fitness coach", tokens |-> 36]

(* Python's seq[start:stop] for a list of length Len(seq). *)
SliceIndex(i, n) ==
    IF i < 0 THEN (IF i + n < 0 THEN 0 ELSE i + n)
             ELSE (IF i > n THEN n ELSE i)

PySlice(seq, start, stop) ==
    LET lo == SliceIndex(start, Len(seq))
        hi == SliceIndex(stop, Len(seq))
    IN  IF lo >= hi THEN << >> ELSE SubSeq(seq, lo + 1, hi)

(* (a - b).days for a >= b *)
TimedeltaDaysCalendar(a, b) == (a \div TicksPerDay) - (b \div TicksPerDay)

TimedeltaDaysRoundsUp(a, b) == (a - b + TicksPerDay - 1) \div TicksPerDay

TimedeltaDays(a, b) == (a - b) \div TicksPerDay

(* the first record, in insertion order, whose email matches; the user ids
   are handed out in pool order, which is the dict's insertion order *)
FindByEmail(db, email) ==
    LET hits == {i \in DOMAIN UuidPool :
                    UuidPool[i] \in DOMAIN db /\ db[UuidPool[i]].email = email}
    IN  IF hits = {} THEN None ELSE UuidPool[Min(hits)]

(* login_user's refusal: one raise for `not user or not verify_password`,
   so the answer does not depend on which of the two was the case.
   user_id is None when no record has the email. *)
login_refusal_names_cause(user_id) ==
    IF user_id = None
      THEN [status |-> 401, detail |-> "Unknown email"]
      ELSE [status |-> 401, detail |-> "Wrong password"]

login_refusal(user_id) ==
    [status |-> 401, detail |-> "Invalid credentials"]

EmailExistsWrongField(db, email) == \E u \in DOMAIN db : db[u].user_id = email

EmailExistsNoScan(db, email) == FALSE

EmailExists(db, email) == \E u \in DOMAIN db : db[u].email = email

(* user["last_active"] = datetime.utcnow() *)
SetLastActiveWrongField(db, user_id, t) ==
    [db EXCEPT ![user_id].created_at = t]

SetLastActiveForAll(db, user_id, t) ==
    [u \in DOMAIN db |-> [db[u] EXCEPT !.last_active = t]]

SetLastActive(db, user_id, t) == [db EXCEPT ![user_id].last_active = t]

(* get_current_user: users_db.get(user_id), 404 when there is no record *)
get_current_user_unauthorized(db, user_id) ==
    IF user_id \in DOMAIN db
      THEN [status |-> 200, detail |-> None]
      ELSE [status |-> 401, detail |-> "Invalid credentials"]

get_current_user(db, user_id) ==
    IF user_id \in DOMAIN db
      THEN [status |-> 200, detail |-> None]
      ELSE [status |-> 404, detail |-> "User not found"]

(* The UpdateProfile model: a field that the body leaves out gets the default
   of the model, None, as does a field the body gives as null. *)
ParseOptional(x) == IF x = Omitted THEN None ELSE x

(* update_user_profile, the three `if ... is not None` assignments *)
apply_profile_update_unconditional(user, profile_update) ==
    [user EXCEPT !.first_name = profile_update.first_name,
                 !.last_name = profile_update.last_name,
                 !.fitness_goals = profile_update.fitness_goals]

apply_profile_update(user, profile_update) ==
    [user EXCEPT
       !.first_name =
           IF profile_update.first_name # None
             THEN profile_update.first_name ELSE @,
       !.last_name =
           IF profile_update.last_name # None
             THEN profile_update.last_name ELSE @,
       !.fitness_goals =
           IF profile_update.fitness_goals # None
             THEN profile_update.fitness_goals ELSE @]

AppendTurnOverwrites(db, user_id, record) ==
    (user_id :> <<record>>) @@ db

AppendTurnAtFront(db, user_id, record) ==
    IF user_id \in DOMAIN db
      THEN [db EXCEPT ![user_id] = <<record>> \o @]
      ELSE (user_id :> <<record>>) @@ db

AppendTurnRelabels(db, user_id, record) ==
    IF user_id \in DOMAIN db
      THEN [db EXCEPT ![user_id] =
              Append([i \in DOMAIN @ |->
                        [@[i] EXCEPT !.conversation_id =
                                        record.conversation_id]],
                     record)]
      ELSE (user_id :> <<record>>) @@ db

AppendTurn(db, user_id, record) ==
    IF user_id \in DOMAIN db
      THEN [db EXCEPT ![user_id] = Append(@, record)]
      ELSE (user_id :> <<record>>) @@ db

InFlight(op, key) ==
    {s \in Slots : reqs[s].pc # "idle" /\ reqs[s].op = op
                   /\ (reqs[s].email = key \/ reqs[s].user_id = key)}

StoredTurns(u) ==
    IF u \in DOMAIN conversations_db THEN conversations_db[u] ELSE << >>

(* A token with a good signature whose user has no record in this process:
   the store is in memory, so a token issued before a restart, or by
   another worker process, outlives the record it names. *)
StaleTokens ==
    {[user_id |-> "uuid-0", email |-> "ghost@example.com",
      exp |-> (MaxHalfDays + 4) * TicksPerHalfDay, key |-> SECRET_KEY]}

GarbageToken == [user_id |-> None, email |-> None, exp |-> 0, key |-> None]

ForgedTokens ==
    {[user_id |-> u, email |-> users_db[u].email,
      exp |-> (MaxHalfDays + 4) * TicksPerHalfDay, key |-> "attacker-key"] :
        u \in DOMAIN users_db}

(* What a client can put in the Authorization header: a token it was
   issued and has kept, a token signed with another key, or a string that
   is no token. *)
PresentableTokens == issued \cup ForgedTokens \cup {GarbageToken}

(* A client keeps the token of its registration and the token of its latest
   login. *)
KeptTokens(email, access_token) ==
    {t \in issued : t.email # email \/ t = regLog[email].token}
    \cup {access_token}

(* The operations a request slot may carry: the first slot any of them, the
   further slots the operations whose overlap is being examined. *)
SlotOps(E, s) == IF s = 1 THEN BodyOps \cup AuthOps ELSE E.partner_ops

(* The last response sent, among the responses under observation (pairs of
   operation and status). *)
Observed(E, r) == IF <<r.op, r.status>> \in E.observe THEN r ELSE resp

NoRegistration ==
    [ok |-> 0, conflict |-> 0, user_id |-> None, password |-> None,
     token |-> GarbageToken, at |-> 0]

----------------------------------------------------------------------------
Init ==
    /\ users_db = EmptyMap
    /\ conversations_db = EmptyMap
    /\ now = 0
    /\ reqs = [s \in Slots |-> IdleRequest]
    /\ issued = {}
    /\ resp = [op |-> None, status |-> 0]
    /\ regLog = [e \in Emails |-> NoRegistration]
    /\ chatLog = [u \in Range(UuidPool) |-> 0]
    /\ loginLog = {}
    /\ overlapped = {}

(* The clock moves forward to a later instant. *)
Tick(E) ==
    /\ UNCHANGED <<chatLog, loginLog>>
    /\ \E t \in E.instants : t > now /\ now' = t
    /\ UNCHANGED <<users_db, conversations_db, reqs, issued, resp, regLog,
                   overlapped>>

(* A register or login request arrives and its JSON body is read. *)
ReceiveBody(s, E) ==
    /\ UNCHANGED <<chatLog, loginLog>>
    /\ reqs[s].pc = "idle"
    /\ \E op \in BodyOps \cap SlotOps(E, s),
          email \in E.emails, password \in E.passwords :
          /\ op = "register" =>
                regLog[email].ok + regLog[email].conflict
                  + Cardinality(InFlight("register", email)) < MaxRegisterCalls
          /\ reqs' = [reqs EXCEPT ![s] =
                        [pc |-> "parsed", op |-> op, user_id |-> None,
                         email |-> email, password |-> password]]
          /\ overlapped' =
                IF op = "register" /\ InFlight(op, email) # {}
                  THEN overlapped \cup {<<op, email>>} ELSE overlapped
    /\ UNCHANGED <<users_db, conversations_db, now, issued, resp, regLog>>

(* users_db[user_id] = {...}: one more key in the dict *)
StoreUserAlone(db, user_id, record) == (user_id :> record)

StoreUser(db, user_id, record) == (user_id :> record) @@ db

(* register_user's writes: the scan for the email raises 409 before
   anything is stored; otherwise the record is stored and then an empty
   conversation list under the same id. *)
register_user_store_skipped(db, email, user_id, record) == db

register_user_store_first(db, email, user_id, record) ==
    StoreUser(db, user_id, record)

register_user_store(db, email, user_id, record) ==
    IF EmailExists(db, email) THEN db ELSE StoreUser(db, user_id, record)

(* conversations_db[user_id] = [] *)
NewConversationLater(db, user_id) == db

NewConversation(db, user_id) == (user_id :> << >>) @@ db

(* POST /auth/register *)
Register(s, E) ==
    /\ UNCHANGED <<chatLog, loginLog>>
    /\ reqs[s].pc = "parsed" /\ reqs[s].op = "register"
    /\ \E first_name \in FirstNames, last_name \in LastNames,
          fitness_goals \in E.goals :
       LET email == reqs[s].email
           password == reqs[s].password
           user_id == uuid4(UsedUuids)
           record == [user_id |-> user_id,
                      email |-> email,
                      password |-> hash_password(password),
                      first_name |-> first_name,
                      last_name |-> last_name,
                      fitness_goals |-> fitness_goals,
                      created_at |-> now,
                      last_active |-> now,
                      is_active |-> TRUE]
           access_token ==
               create_access_token([user_id |-> user_id, email |-> email],
                                   now)
       IN  /\ users_db' = register_user_store(users_db, email, user_id, record)
           /\ IF EmailExists(users_db, email)
                THEN /\ resp' = Observed(E,
                           [op |-> "register", status |-> 409,
                            detail |-> "User already exists",
                            email |-> email])
                     /\ regLog' = [regLog EXCEPT ![email].conflict = @ + 1]
                     /\ UNCHANGED <<conversations_db, issued>>
                ELSE /\ conversations_db' =
                           NewConversation(conversations_db, user_id)
                     /\ issued' = issued \cup {access_token}
                     /\ resp' = Observed(E,
                           [op |-> "register", status |-> 200,
                            message |-> "User registered successfully",
                            user_id |-> user_id,
                            access_token |-> access_token,
                            token_type |-> "bearer",
                            expires_in |-> ACCESS_TOKEN_EXPIRE_MINUTES * 60,
                            email |-> email])
                     /\ regLog' = [regLog EXCEPT ![email] =
                                     [ok |-> @.ok + 1,
                                      conflict |-> @.conflict,
                                      user_id |-> user_id,
                                      password |-> password,
                                      token |-> access_token,
                                      at |-> now]]
    /\ reqs' = [reqs EXCEPT ![s] = IdleRequest]
    /\ UNCHANGED <<now, overlapped>>

(* login_user's write: user["last_active"] = datetime.utcnow() comes after
   the raise for `not user or not verify_password(...)`.  user_id is None
   when no record has the email; accepted says whether the check passed. *)
login_user_store_touches_first(db, user_id, accepted, t) ==
    IF user_id # None THEN SetLastActive(db, user_id, t) ELSE db

login_user_store(db, user_id, accepted, t) ==
    IF accepted THEN SetLastActive(db, user_id, t) ELSE db

(* POST /auth/login *)
Login(s, E) ==
    /\ UNCHANGED chatLog
    /\ reqs[s].pc = "parsed" /\ reqs[s].op = "login"
    /\ LET email == reqs[s].email
           password == reqs[s].password
           user_id == FindByEmail(users_db, email)
       IN  IF user_id = None
              \/ ~verify_password(password, users_db[user_id].password)
             THEN LET refusal == login_refusal(user_id)
                  IN  /\ resp' = Observed(E,
                            [op |-> "login", status |-> refusal.status,
                             detail |-> refusal.detail,
                             email |-> email, password |-> password])
                      /\ loginLog' =
                            IF <<"login", refusal.status>> \in E.observe
                              THEN loginLog \cup
                                     {[registered |-> user_id # None,
                                       status |-> refusal.status,
                                       detail |-> refusal.detail]}
                              ELSE loginLog
                      /\ users_db' =
                            login_user_store(users_db, user_id, FALSE, now)
                      /\ UNCHANGED issued
             ELSE LET access_token ==
                          create_access_token(
                              [user_id |-> user_id,
                               email |-> users_db[user_id].email], now)
                  IN  /\ users_db' =
                            login_user_store(users_db, user_id, TRUE, now)
                      /\ UNCHANGED loginLog
                      /\ issued' = KeptTokens(email, access_token)
                      /\ resp' = Observed(E,
                            [op |-> "login", status |-> 200,
                             message |-> "Login successful",
                             user_id |-> user_id,
                             access_token |-> access_token,
                             token_type |-> "bearer",
                             expires_in |-> ACCESS_TOKEN_EXPIRE_MINUTES * 60,
                             email |-> email, password |-> password])
    /\ reqs' = [reqs EXCEPT ![s] = IdleRequest]
    /\ UNCHANGED <<conversations_db, now, regLog, overlapped>>

(* An authenticated request arrives: Depends(verify_token) runs in the
   thread pool. *)
VerifyToken(s, E) ==
    /\ UNCHANGED <<chatLog, loginLog>>
    /\ reqs[s].pc = "idle"
    /\ \E op \in AuthOps \cap SlotOps(E, s),
          token \in PresentableTokens \cup E.stale_tokens :
       \E v \in verify_token(token, now) :
          /\ (op = "chat" /\ v.status = 200) =>
                Len(StoredTurns(v.user_id))
                  + Cardinality(InFlight("chat", v.user_id)) < E.max_turns
          /\ IF v.status = 200
               THEN /\ reqs' = [reqs EXCEPT ![s] =
                                  [pc |-> "verified", op |-> op,
                                   user_id |-> v.user_id, email |-> None,
                                   password |-> None]]
                    /\ overlapped' =
                          IF op = "chat" /\ InFlight(op, v.user_id) # {}
                            THEN overlapped \cup {<<op, v.user_id>>}
                            ELSE overlapped
                    /\ UNCHANGED resp
               ELSE /\ resp' = Observed(E,
                          [op |-> op, status |-> v.status,
                           detail |-> v.detail, token |-> token])
                    /\ UNCHANGED <<reqs, overlapped>>
    /\ UNCHANGED <<users_db, conversations_db, now, issued, regLog>>

(* Depends(get_current_user), also run in the thread pool. *)
GetCurrentUser(s, E) ==
    /\ UNCHANGED <<chatLog, loginLog>>
    /\ reqs[s].pc = "verified"
    /\ LET found == get_current_user(users_db, reqs[s].user_id)
       IN  IF found.status = 200
             THEN /\ reqs' = [reqs EXCEPT ![s].pc = "authed"]
                  /\ UNCHANGED resp
             ELSE /\ reqs' = [reqs EXCEPT ![s] = IdleRequest]
                  /\ resp' = Observed(E,
                        [op |-> reqs[s].op, status |-> found.status,
                         detail |-> found.detail,
                         user_id |-> reqs[s].user_id])
    /\ UNCHANGED <<users_db, conversations_db, now, issued, regLog,
                   overlapped>>

(* chat_request.conversation_id or str(uuid.uuid4()): `or` takes the right
   side when the left is None or the empty string. *)
conversation_id_always_new(supplied, used) == uuid4(used)

conversation_id_or_new(supplied, used) ==
    IF supplied = None \/ supplied = "" THEN uuid4(used) ELSE supplied

(* POST /chat *)
Chat(s, E) ==
    /\ reqs[s].pc = "authed" /\ reqs[s].op = "chat"
    /\ \E message \in E.messages, supplied \in E.conversation_ids,
          context \in Contexts, response_time_ms \in ResponseTimesMs :
       LET user_id == users_db[reqs[s].user_id].user_id
           conversation_id == conversation_id_or_new(supplied, UsedUuids)
           ai == generate_ai_response(message)
           conversation_record ==
               [conversation_id |-> conversation_id,
                user_message |-> message,
                ai_response |-> ai.text,
                timestamp |-> now,
                context |-> context,
                tokens_used |-> ai.tokens,
                response_time_ms |-> response_time_ms]
       IN  /\ conversations_db' =
                 AppendTurn(conversations_db, user_id, conversation_record)
           /\ users_db' = SetLastActive(users_db, reqs[s].user_id, now)
           /\ resp' = Observed(E,
                 [op |-> "chat", status |-> 200,
                  user_id |-> user_id,
                  supplied |-> supplied,
                  message |-> message,
                  response |-> ai.text,
                  conversation_id |-> conversation_id,
                  timestamp |-> conversation_record.timestamp,
                  tokens_used |-> ai.tokens,
                  response_time_ms |-> response_time_ms])
    /\ chatLog' = [chatLog EXCEPT ![reqs[s].user_id] = @ + 1]
    /\ reqs' = [reqs EXCEPT ![s] = IdleRequest]
    /\ UNCHANGED <<now, issued, regLog, loginLog, overlapped>>

(* GET /chat/history/{user_id}: the body of the handler, as a function of
   the store, the caller, the path parameter and the two query parameters. *)
get_conversation_history_no_owner_check(db, current_user_id, user_id, limit, offset) ==
    LET user_conversations ==
            IF user_id \in DOMAIN db THEN db[user_id] ELSE << >>
    IN  [op |-> "history", status |-> 200, detail |-> None,
         requester |-> current_user_id, user_id |-> user_id,
         limit |-> limit, offset |-> offset,
         total_conversations |-> Len(user_conversations),
         conversations |->
             PySlice(user_conversations, offset, offset + limit)]

get_conversation_history_limit_as_stop(db, current_user_id, user_id, limit, offset) ==
    IF current_user_id # user_id
      THEN [op |-> "history", status |-> 403, detail |-> "Access denied",
            requester |-> current_user_id, user_id |-> user_id,
            limit |-> limit, offset |-> offset,
            total_conversations |-> 0, conversations |-> << >>]
      ELSE LET user_conversations ==
                   IF user_id \in DOMAIN db THEN db[user_id] ELSE << >>
           IN  [op |-> "history", status |-> 200, detail |-> None,
                requester |-> current_user_id, user_id |-> user_id,
                limit |-> limit, offset |-> offset,
                total_conversations |-> Len(user_conversations),
                conversations |-> PySlice(user_conversations, offset, limit)]

get_conversation_history(db, current_user_id, user_id, limit, offset) ==
    IF current_user_id # user_id
      THEN [op |-> "history", status |-> 403, detail |-> "Access denied",
            requester |-> current_user_id, user_id |-> user_id,
            limit |-> limit, offset |-> offset,
            total_conversations |-> 0, conversations |-> << >>]
      ELSE LET user_conversations ==
                   IF user_id \in DOMAIN db THEN db[user_id] ELSE << >>
           IN  [op |-> "history", status |-> 200, detail |-> None,
                requester |-> current_user_id, user_id |-> user_id,
                limit |-> limit, offset |-> offset,
                total_conversations |-> Len(user_conversations),
                conversations |->
                    PySlice(user_conversations, offset, offset + limit)]

History(s, E) ==
    /\ UNCHANGED <<chatLog, loginLog>>
    /\ reqs[s].pc = "authed" /\ reqs[s].op = "history"
    /\ \E user_id \in DOMAIN users_db \cup {"nobody"},
          limit \in E.limits, offset \in E.offsets :
          resp' = Observed(E,
                    get_conversation_history(
                        conversations_db, users_db[reqs[s].user_id].user_id,
                        user_id, limit, offset))
    /\ reqs' = [reqs EXCEPT ![s] = IdleRequest]
    /\ UNCHANGED <<users_db, conversations_db, now, issued, regLog,
                   overlapped>>

(* GET /stats *)
Stats(s, E) ==
    /\ UNCHANGED <<chatLog, loginLog>>
    /\ reqs[s].pc = "authed" /\ reqs[s].op = "stats"
    /\ LET current_user == users_db[reqs[s].user_id]
           user_conversations == StoredTurns(current_user.user_id)
           days_active ==
               IF user_conversations = << >> THEN 0
               ELSE TimedeltaDays(
                        now,
                        Min({c.timestamp : c \in Range(user_conversations)}))
                    + 1
       IN  resp' = Observed(E,
                     [op |-> "stats", status |-> 200,
                      user_id |-> current_user.user_id,
                      total_conversations |-> Len(user_conversations),
                      total_messages |-> Len(user_conversations),
                      days_active |-> days_active,
                      member_since |-> current_user.created_at,
                      last_active |-> current_user.last_active,
                      at |-> now])
    /\ reqs' = [reqs EXCEPT ![s] = IdleRequest]
    /\ UNCHANGED <<users_db, conversations_db, now, issued, regLog,
                   overlapped>>

(* GET /profile: the UserProfile the handler builds from the record of the
   caller, field by field. *)
get_user_profile_whole_record(current_user) ==
    [op |-> "profile", status |-> 200] @@ current_user

get_user_profile(current_user) ==
    [op |-> "profile", status |-> 200,
     user_id |-> current_user.user_id,
     email |-> current_user.email,
     first_name |-> current_user.first_name,
     last_name |-> current_user.last_name,
     fitness_goals |-> current_user.fitness_goals,
     created_at |-> current_user.created_at,
     last_active |-> current_user.last_active]

Profile(s, E) ==
    /\ UNCHANGED <<chatLog, loginLog>>
    /\ reqs[s].pc = "authed" /\ reqs[s].op = "profile"
    /\ LET current_user == users_db[reqs[s].user_id]
       IN  resp' = Observed(E, get_user_profile(current_user))
    /\ reqs' = [reqs EXCEPT ![s] = IdleRequest]
    /\ UNCHANGED <<users_db, conversations_db, now, issued, regLog,
                   overlapped>>

(* PUT /profile (src/main_complex.py) *)
UpdateProfile(s, E) ==
    /\ UNCHANGED <<chatLog, loginLog>>
    /\ reqs[s].pc = "authed" /\ reqs[s].op = "update_profile"
    /\ \E first_name \in E.new_first_names, last_name \in E.new_last_names,
          fitness_goals \in E.new_goals :
       LET user_id == users_db[reqs[s].user_id].user_id
           profile_update ==
               [first_name |-> ParseOptional(first_name),
                last_name |-> ParseOptional(last_name),
                fitness_goals |-> ParseOptional(fitness_goals)]
       IN  /\ users_db' =
                 SetLastActive(
                    [users_db EXCEPT ![user_id] =
                       apply_profile_update(@, profile_update)],
                    user_id, now)
           /\ resp' = Observed(E,
                 [op |-> "update_profile", status |-> 200,
                  message |-> "Profile updated successfully",
                  user_id |-> user_id,
                  first_name |-> first_name,
                  last_name |-> last_name,
                  fitness_goals |-> fitness_goals,
                  timestamp |-> now])
    /\ reqs' = [reqs EXCEPT ![s] = IdleRequest]
    /\ UNCHANGED <<conversations_db, now, issued, regLog, overlapped>>

(* The exception classes the application has installed a handler for on top
   of the framework's own.  setup_exception_handlers(app) would install one
   for "Exception" among others (src/exceptions.py), but src/main.py never
   calls it and in src/main_complex.py the call is commented out. *)
InstalledHandlers == {}

(* What a handler can raise that is no HTTPException. *)
InternalFaults == {"KeyError: 'last_active'", "MemoryError"}

(* general_exception_handler: 500 with the fixed message of
   ServerErrorResponse and a new uuid4 as error_id. *)
general_exception_handler(op, used) ==
    [op |-> op, status |-> 500, error |-> "INTERNAL_SERVER_ERROR",
     message |-> "An internal server error occurred",
     error_id |-> uuid4(used)]

(* With no handler for Exception the framework's server error middleware
   answers, debug being off: 500 and the plain text "Internal Server
   Error". *)
server_error_middleware(op) ==
    [op |-> op, status |-> 500, error |-> None,
     message |-> "Internal Server Error", error_id |-> None]

unhandled_exception(handlers, op, used) ==
    IF "Exception" \in handlers
      THEN general_exception_handler(op, used)
      ELSE server_error_middleware(op)

(* A handler body raises an exception that is no HTTPException before it
   has written anything. *)
InternalFault(s, E) ==
    /\ reqs[s].pc \in {"parsed", "authed"}
    /\ \E exc \in InternalFaults :
          resp' = Observed(E,
                    [raised |-> exc]
                      @@ unhandled_exception(InstalledHandlers, reqs[s].op,
                                             UsedUuids))
    /\ reqs' = [reqs EXCEPT ![s] = IdleRequest]
    /\ UNCHANGED <<users_db, conversations_db, now, issued, regLog, chatLog,
                   loginLog, overlapped>>

NextIn(E) ==
    \/ Tick(E)
    \/ \E s \in Slots : ReceiveBody(s, E)
    \/ \E s \in Slots : Register(s, E)
    \/ \E s \in Slots : Login(s, E)
    \/ \E s \in Slots : VerifyToken(s, E)
    \/ \E s \in Slots : GetCurrentUser(s, E)
    \/ \E s \in Slots : Chat(s, E)
    \/ \E s \in Slots : History(s, E)
    \/ \E s \in Slots : Stats(s, E)
    \/ \E s \in Slots : Profile(s, E)
    \/ \E s \in Slots : UpdateProfile(s, E)

----------------------------------------------------------------------------
(* The requests the clients send.  Every specification runs every endpoint;
   they differ in which inputs vary. *)

BaseEnv ==
    [instants |-> InstantsUpTo(0),
     emails |-> {"alice@example.com"},
     passwords |-> {"Passw0rd1"},
     goals |-> {None},
     messages |-> {"workout"},
     conversation_ids |-> {None},
     max_turns |-> 1,
     limits |-> {DefaultLimit},
     offsets |-> {DefaultOffset},
     new_first_names |-> {None},
     new_last_names |-> {None},
     new_goals |-> {None},
     partner_ops |-> {},
     stale_tokens |-> {},
     observe |-> {}]

(* Two accounts, overlapping registrations. *)
AccountsEnv ==
    [BaseEnv EXCEPT !.emails = Emails,
                    !.partner_ops = {"register"},
                    !.observe = {"register"} \X {200, 409}]

Next == NextIn(AccountsEnv)

Spec == Init /\ [][Next]_vars

(* Two accounts that read their own and each other's history. *)
OwnershipEnv ==
    [BaseEnv EXCEPT !.emails = Emails,
                    !.observe = {"history"} \X {200, 403}]

NextOwnership == NextIn(OwnershipEnv)

SpecOwnership == Init /\ [][NextOwnership]_vars

(* One account whose chats overlap. *)
ChatEnv ==
    [BaseEnv EXCEPT !.instants = InstantsUpTo(1),
                    !.max_turns = MaxTurns,
                    !.partner_ops = {"chat"},
                    !.observe = {<<"chat", 200>>, <<"history", 200>>,
                                 <<"stats", 200>>}]

NextChat == NextIn(ChatEnv)

SpecChat == Init /\ [][NextChat]_vars

(* One account, its conversation, and every page of it. *)
PagingEnv ==
    [BaseEnv EXCEPT !.max_turns = MaxTurns,
                    !.limits = Limits,
                    !.offsets = Offsets,
                    !.observe = {<<"chat", 200>>, <<"history", 200>>,
                                 <<"history", 403>>}]

NextPaging == NextIn(PagingEnv)

SpecPaging == Init /\ [][NextPaging]_vars

(* One account, right and wrong passwords. *)
LoginEnv ==
    [BaseEnv EXCEPT !.instants = InstantsUpTo(1),
                    !.passwords = Passwords,
                    !.observe = {"register", "login"} \X {200, 401, 409}]

NextLogin == NextIn(LoginEnv)

SpecLogin == Init /\ [][NextLogin]_vars

(* One account and a clock that runs past the lifetime of its tokens. *)
TokenEnv ==
    [BaseEnv EXCEPT !.instants = InstantsUpTo(MaxHalfDays),
                    !.observe = {<<"register", 200>>, <<"profile", 401>>}]

NextToken == NextIn(TokenEnv)

SpecToken == Init /\ [][NextToken]_vars

(* One account that logs in with right and wrong passwords and changes its
   profile while the clock runs up to the expiry of its first token. *)
SessionEnv ==
    [BaseEnv EXCEPT !.instants = InstantsUpTo(MaxHalfDays - 1),
                    !.passwords = Passwords,
                    !.new_first_names = NewFirstNames,
                    !.observe = {<<"login", 401>>}]

NextSession == NextIn(SessionEnv)

SpecSession == Init /\ [][NextSession]_vars

(* One account whose conversation is counted on different days. *)
StatsEnv ==
    [BaseEnv EXCEPT !.instants = HalfDaysUpTo(MaxHalfDays),
                    !.max_turns = MaxTurns - 1,
                    !.observe = {<<"chat", 200>>, <<"stats", 200>>}]

NextStats == NextIn(StatsEnv)

SpecStats == Init /\ [][NextStats]_vars

(* One account that rewrites its profile in every way. *)
ProfileEnv ==
    [BaseEnv EXCEPT !.goals = Goals,
                    !.new_first_names = NewFirstNames,
                    !.new_last_names = NewLastNames,
                    !.new_goals = NewGoals,
                    !.observe = {<<"update_profile", 200>>}]

NextProfile == NextIn(ProfileEnv)

SpecProfile == Init /\ [][NextProfile]_vars

(* One account with a record, and a caller whose token names none. *)
StaleEnv ==
    [BaseEnv EXCEPT !.instants = InstantsUpTo(1),
                    !.max_turns = MaxTurns - 1,
                    !.messages = Messages,
                    !.stale_tokens = StaleTokens,
                    !.observe = {"chat"} \X {200, 401, 404}]

NextStale == NextIn(StaleEnv)

SpecStale == Init /\ [][NextStale]_vars

(* One account, every endpoint answered and every answer looked at. *)
ResultsEnv ==
    [BaseEnv EXCEPT !.instants = InstantsUpTo(1),
                    !.goals = Goals,
                    !.new_first_names = NewFirstNames,
                    !.observe = {"register", "login", "profile",
                                 "update_profile", "chat", "history",
                                 "stats"} \X {200}]

NextResults == NextIn(ResultsEnv)

SpecResults == Init /\ [][NextResults]_vars

(* One account whose requests may fail inside the handler. *)
FaultEnv ==
    [BaseEnv EXCEPT !.instants = InstantsUpTo(1),
                    !.observe = {"register", "login", "profile",
                                 "update_profile", "chat", "history",
                                 "stats"} \X {500}]

NextFault ==
    \/ NextIn(FaultEnv)
    \/ \E s \in Slots : InternalFault(s, FaultEnv)

SpecFault == Init /\ [][NextFault]_vars

(* One account that chats in threads it names or leaves unnamed. *)
ThreadEnv ==
    [BaseEnv EXCEPT !.conversation_ids = SuppliedConversationIds,
                    !.max_turns = MaxTurns,
                    !.partner_ops = {"chat"},
                    !.observe = {<<"chat", 200>>}]

NextThread == NextIn(ThreadEnv)

SpecThread == Init /\ [][NextThread]_vars

(* Two accounts that chat at different instants. *)
PairEnv ==
    [BaseEnv EXCEPT !.instants = HalfDaysUpTo(1),
                    !.emails = Emails]

NextPair == NextIn(PairEnv)

SpecPair == Init /\ [][NextPair]_vars

----------------------------------------------------------------------------
(* C1: in every reachable state no two records of the user store carry the
   same email (exact, case-sensitive comparison), and every record is stored
   under the key that equals its own user_id. *)
C1_UniqueEmailAndKey ==
    /\ \A u \in DOMAIN users_db, v \in DOMAIN users_db :
          users_db[u].email = users_db[v].email => u = v
    /\ \A u \in DOMAIN users_db : users_db[u].user_id = u

(* Both spellings of the address are registered, a second registration of
   one of them was refused, and a later request has changed a record. *)
C1_Witness ==
    /\ Cardinality(DOMAIN users_db) = 2
    /\ \E e \in Emails : regLog[e].conflict = 1
    /\ \E u \in DOMAIN users_db :
          users_db[u].last_active > users_db[u].created_at

(* C2: of the register requests made for one email exactly one succeeds and
   every other one is answered 409, whether the requests overlap or follow
   each other. *)
C2_OneRegistrationPerEmail ==
    \A e \in Emails :
        /\ regLog[e].ok <= 1
        /\ (regLog[e].ok + regLog[e].conflict >= 1) => regLog[e].ok = 1

(* Two register requests for one email were in flight together and both
   have been answered, the second with 409. *)
C2_Witness ==
    \E e \in Emails :
        /\ <<"register", e>> \in overlapped
        /\ regLog[e].ok = 1
        /\ regLog[e].conflict = 1
        /\ resp.op = "register" /\ resp.email = e /\ resp.status = 409

TokenLifetime == ACCESS_TOKEN_EXPIRE_MINUTES * 60 * TicksPerSecond

Accepted(user_id) ==
    {[status |-> 200, detail |-> None, user_id |-> user_id]}

Rejected ==
    {[status |-> 401, detail |-> "Invalid credentials", user_id |-> None]}

(* C3: a login with the email and password of an earlier successful
   registration succeeds, returns the user_id that register returned, and
   its token authenticates, for as long as it has not expired, to that
   user_id, which is also the one the register token authenticates to. *)
C3_RegisterThenLogin ==
    (resp.op = "login" /\ regLog[resp.email].ok = 1
       /\ resp.password = regLog[resp.email].password)
    => LET reg == regLog[resp.email]
       IN  /\ resp.status = 200
           /\ resp.user_id = reg.user_id
           /\ now < resp.access_token.exp =>
                 verify_token(resp.access_token, now) = Accepted(reg.user_id)
           /\ verify_token(reg.token, reg.at) = Accepted(reg.user_id)

(* The login comes at least a second after the registration, a chat of the
   user has been stored, and the login token is still good. *)
C3_Witness ==
    /\ resp.op = "login" /\ resp.status = 200
    /\ regLog[resp.email].ok = 1
    /\ resp.access_token.exp > regLog[resp.email].token.exp
    /\ StoredTurns(resp.user_id) # << >>
    /\ now < resp.access_token.exp

(* C4, as claimed: the token of a registration made at t0 authenticates at
   every time before t0 + TTL and is refused at every time from t0 + TTL
   on. *)
C4_BoundaryAtIssuePlusTTL ==
    \A e \in Emails :
        regLog[e].ok = 1 =>
            IF now < regLog[e].at + TokenLifetime
              THEN verify_token(regLog[e].token, now)
                       = Accepted(regLog[e].user_id)
              ELSE verify_token(regLog[e].token, now) = Rejected

(* C4, amended: with E the issue time cut to whole seconds plus the TTL,
   the token authenticates at every time before E and is refused, with the
   401 of every other token failure, at every time from one second after E
   on; a refusal that was observed came at or after E. *)
C4_ExpiryOnWholeSeconds ==
    \A e \in Emails :
        regLog[e].ok = 1 =>
            LET E == (regLog[e].at \div TicksPerSecond) * TicksPerSecond
                        + TokenLifetime
            IN  /\ now < E =>
                      verify_token(regLog[e].token, now)
                          = Accepted(regLog[e].user_id)
                /\ now >= E + TicksPerSecond =>
                      verify_token(regLog[e].token, now) = Rejected
                /\ (resp.status = 401 /\ resp.op = "profile"
                       /\ resp.token = regLog[e].token) => now >= E

(* A token issued between two whole seconds was presented and refused, and
   the clock is more than a second past its expiry; the account was used
   in between. *)
C4_Witness ==
    \E e \in Emails :
        /\ regLog[e].ok = 1
        /\ regLog[e].at % TicksPerSecond # 0
        /\ resp.status = 401 /\ resp.op = "profile"
        /\ resp.token = regLog[e].token
        /\ now >= regLog[e].at + TokenLifetime + TicksPerSecond
        /\ users_db[regLog[e].user_id].last_active > regLog[e].at

(* C5: a history request for another user's id is answered 403 and carries
   none of that user's turns, a request for the caller's own id is answered
   200, and a history request leaves both stores as they were. *)
C5_HistoryOwnerOnly ==
    /\ [](resp.op = "history" =>
            IF resp.requester = resp.user_id
              THEN resp.status = 200
              ELSE resp.status = 403 /\ resp.conversations = << >>)
    /\ [][(\E s \in Slots :
               /\ reqs[s].pc = "authed" /\ reqs[s].op = "history"
               /\ reqs'[s].pc = "idle")
           => UNCHANGED <<users_db, conversations_db>>]_vars

(* One registered user asked for the history of another registered user,
   who has turns stored, and was refused. *)
C5_Witness ==
    /\ resp.op = "history" /\ resp.status = 403
    /\ resp.requester \in DOMAIN users_db
    /\ resp.user_id \in DOMAIN users_db
    /\ StoredTurns(resp.user_id) # << >>

(* The turns of `turns` at the 0-based indices lo, lo+1, ... below hi that
   exist, in index order. *)
TurnsBetween(turns, lo, hi) ==
    LET from == IF lo < 0 THEN 0 ELSE lo
        to == IF hi > Len(turns) THEN Len(turns) ELSE hi
    IN  IF to <= from THEN << >>
        ELSE [i \in 1..(to - from) |-> turns[from + i]]

(* The history response in hand was computed from the sequence now stored:
   in the paging runs every chat is observed, so a history response is the
   last response only while no turn was appended after it. *)
PageOf(r) == StoredTurns(r.user_id)

(* C6: with N turns stored, history with limit L >= 0 and offset O >= 0
   returns the turns O .. O+L-1 in append order (nothing when O is beyond
   the end) and reports the total N. *)
C6_PageIsSlice ==
    (resp.op = "history" /\ resp.status = 200
       /\ resp.limit >= 0 /\ resp.offset >= 0)
    => /\ resp.conversations =
             TurnsBetween(PageOf(resp), resp.offset, resp.offset + resp.limit)
       /\ resp.total_conversations = Len(PageOf(resp))

(* Three turns stored at two different instants, read with limit 2 and
   offset 1: the second and the third turn come back. *)
C6_Witness ==
    /\ resp.op = "history" /\ resp.status = 200
    /\ resp.limit = 2 /\ resp.offset = 1
    /\ resp.total_conversations = 3
    /\ Len(resp.conversations) = 2
    /\ resp.conversations[1].timestamp < resp.conversations[2].timestamp

(* C7, as claimed: history with limit <= 0 returns no turn, whatever the
   offset and the stored length, and still reports the total. *)
C7_NonPositiveLimitIsEmpty ==
    (resp.op = "history" /\ resp.status = 200 /\ resp.limit <= 0)
    => /\ resp.conversations = << >>
       /\ resp.total_conversations = Len(PageOf(resp))

(* C8, as claimed: for every integer offset and limit history returns the
   stored turns whose indices lie in [offset, offset+limit) and in [0, N),
   in index order. *)
C8_PageIsIntersection ==
    (resp.op = "history" /\ resp.status = 200)
    => resp.conversations =
           TurnsBetween(PageOf(resp), resp.offset, resp.offset + resp.limit)

TurnFields ==
    {"conversation_id", "user_message", "ai_response", "timestamp",
     "context", "tokens_used", "response_time_ms"}

(* C9: after K chat requests of a user have been served, overlapping or
   not, the user's sequence holds exactly K turns, each with all its
   fields, a history response carries only whole stored turns, and a
   stats response counts exactly the turns of the chats served. *)
C9_NoLostTurn ==
    /\ \A u \in DOMAIN users_db :
          /\ Len(StoredTurns(u)) = chatLog[u]
          /\ \A t \in Range(StoredTurns(u)) : DOMAIN t = TurnFields
    /\ (resp.op = "history" /\ resp.status = 200)
          => resp.conversations = StoredTurns(resp.user_id)
    /\ (resp.op = "stats" /\ resp.status = 200)
          => /\ resp.total_conversations = chatLog[resp.user_id]
             /\ resp.total_messages = chatLog[resp.user_id]

(* Chats of one user were in flight together, all of them have been
   served, and the history was read afterwards. *)
C9_Witness ==
    \E u \in DOMAIN users_db :
        /\ <<"chat", u>> \in overlapped
        /\ chatLog[u] >= 2
        /\ InFlight("chat", u) = {}
        /\ resp.op = "history" /\ resp.status = 200 /\ resp.user_id = u
        /\ Len(resp.conversations) = chatLog[u]

(* C10: along each user's stored sequence the timestamps never decrease,
   also when the chats of that user overlap. *)
C10_TimestampsInOrder ==
    \A u \in DOMAIN conversations_db :
        \A i \in DOMAIN conversations_db[u], j \in DOMAIN conversations_db[u] :
            i < j => conversations_db[u][i].timestamp
                        <= conversations_db[u][j].timestamp

(* Two chats of one user overlapped and their turns are stored with
   different timestamps. *)
C10_Witness ==
    \E u \in DOMAIN conversations_db :
        /\ <<"chat", u>> \in overlapped
        /\ Len(conversations_db[u]) >= 2
        /\ conversations_db[u][1].timestamp < conversations_db[u][2].timestamp

(* C11: a login refused because no record has the email and a login refused
   because the password is wrong get the same status and the same detail,
   so the answer does not tell whether the email is registered. *)
C11_LoginRefusalsAlike ==
    /\ \A a \in loginLog, b \in loginLog :
          a.status = b.status /\ a.detail = b.detail
    /\ (resp.op = "login" /\ resp.status # 200) =>
          \A a \in loginLog :
              a.status = resp.status /\ a.detail = resp.detail

(* A login was refused before the email was registered and another one,
   with a wrong password, after it. *)
C11_Witness ==
    /\ \E a \in loginLog : a.registered
    /\ \E b \in loginLog : ~b.registered
    /\ resp.op = "login" /\ resp.status = 401
    /\ regLog[resp.email].ok = 1

(* The ways in which decoding `token` fails at time t. *)
DecodeFailures(token, t) ==
    {d \in jwt_decode(token, SECRET_KEY, t) : d.error # None}

(* C12, as claimed: a signature that does not match, an expired token and a
   payload that cannot be decoded are reported as three different
   failures: two different causes never give the same failure value. *)
C12_DistinctFailures ==
    \A t1 \in PresentableTokens, t2 \in PresentableTokens :
        \A d1 \in DecodeFailures(t1, now), d2 \in DecodeFailures(t2, now) :
            d1.error # d2.error => token_outcome(d1) # token_outcome(d2)

(* C12, amended: every failure of token verification, whatever its cause,
   is reported as the same 401 "Invalid credentials". *)
C12_OneFailureForAll ==
    /\ \A t \in PresentableTokens :
          \A d \in DecodeFailures(t, now) : token_outcome(d) \in Rejected
    /\ (resp.op = "profile" /\ resp.status = 401) =>
          resp.detail = "Invalid credentials"

(* An issued token has expired and was refused, while a token signed with
   another key and a string that is no token can be presented too. *)
C12_Witness ==
    /\ resp.op = "profile" /\ resp.status = 401
    /\ resp.token \in issued
    /\ now >= resp.token.exp + TicksPerSecond
    /\ \E t \in ForgedTokens :
          \E d \in DecodeFailures(t, now) : d.error = "InvalidSignatureError"
    /\ \E d \in DecodeFailures(GarbageToken, now) : d.error = "DecodeError"

(* C13, as claimed: the payload of every token that register or login
   issues carries user_id, email, an issued-at time and an expires-at time
   equal to issued-at plus the TTL, and expires_in is that lifetime in
   seconds. *)
C13_PayloadHasIssuedAt ==
    (resp.op \in {"register", "login"} /\ resp.status = 200)
    => /\ {"user_id", "email", "iat", "exp"} \subseteq DOMAIN resp.access_token
       /\ resp.access_token.exp = resp.access_token.iat + TokenLifetime
       /\ resp.expires_in * TicksPerSecond = TokenLifetime

(* C13, amended: the token that register or login issues carries the
   user_id of the record, its email and an expires-at time, and nothing
   else; expires-at is the time of issue plus the TTL, cut down to a whole
   second; expires_in is the TTL in seconds. *)
C13_TokenPayload ==
    [][\A s \in Slots :
          (/\ reqs[s].pc = "parsed" /\ reqs'[s].pc = "idle"
           /\ resp'.op = reqs[s].op /\ resp'.status = 200)
          => LET tok == resp'.access_token
             IN  /\ DOMAIN tok = {"user_id", "email", "exp", "key"}
                 /\ tok.key = SECRET_KEY
                 /\ tok.user_id = resp'.user_id
                 /\ tok.email = reqs[s].email
                 /\ users_db'[tok.user_id].email = tok.email
                 /\ tok.exp % TicksPerSecond = 0
                 /\ tok.exp <= now + TokenLifetime
                 /\ now + TokenLifetime < tok.exp + TicksPerSecond
                 /\ resp'.expires_in = ACCESS_TOKEN_EXPIRE_MINUTES * 60]_vars

(* A login between two whole seconds was answered with a token that
   expires less than the TTL later. *)
C13_Witness ==
    /\ resp.op = "login" /\ resp.status = 200
    /\ now % TicksPerSecond # 0
    /\ users_db[resp.user_id].last_active = now
    /\ resp.access_token.exp < now + TokenLifetime
    /\ resp.access_token.exp > regLog[resp.email].token.exp

(* C14: authenticating with an unexpired token gives, every time, the
   user id of the record the token was issued for, and a step of
   authentication (verify_token or get_current_user, passing or failing)
   changes neither the user store nor the conversation store. *)
C14_AuthenticateIsPure ==
    /\ [](\A t \in issued :
             now < t.exp =>
                 /\ verify_token(t, now) = Accepted(t.user_id)
                 /\ t.user_id \in DOMAIN users_db
                 /\ users_db[t.user_id].email = t.email)
    /\ [][(\E s \in Slots :
               \/ reqs[s].pc = "idle" /\ reqs'[s].pc = "verified"
               \/ reqs[s].pc = "verified" /\ reqs'[s].pc # "verified"
               \/ reqs' = reqs /\ resp' # resp)
           => UNCHANGED <<users_db, conversations_db>>]_vars

(* A request has passed both authentication steps after the user's record
   was last written, and the record's last_active still shows the earlier
   time. *)
C14_Witness ==
    \E s \in Slots :
        /\ reqs[s].pc = "authed" /\ reqs[s].op = "profile"
        /\ users_db[reqs[s].user_id].last_active
              > users_db[reqs[s].user_id].created_at
        /\ users_db[reqs[s].user_id].last_active < now
        /\ \E t \in issued : t.user_id = reqs[s].user_id /\ now < t.exp

(* C15: the token of a registration and the token of a later login
   authenticate to the user of the registration at every time before their
   own expiry, whatever was done in between. *)
C15_NoRevocation ==
    \A e \in Emails :
        regLog[e].ok = 1 =>
            \A t \in {regLog[e].token} \cup {x \in issued : x.email = e} :
                now < t.exp =>
                    /\ verify_token(t, now) = Accepted(regLog[e].user_id)
                    /\ regLog[e].user_id \in DOMAIN users_db

(* Since the registration a login was refused, a later login issued a
   second token, the first name was changed and a chat was stored; the
   first token is in its last half day. *)
C15_Witness ==
    \E e \in Emails :
        /\ regLog[e].ok = 1
        /\ \E a \in loginLog : a.registered
        /\ \E x \in issued : x.email = e /\ x.exp > regLog[e].token.exp
        /\ users_db[regLog[e].user_id].first_name \in NewFirstNames
        /\ StoredTurns(regLog[e].user_id) # << >>
        /\ now < regLog[e].token.exp
        /\ now >= regLog[e].at + TicksPerHalfDay

(* The earliest timestamp of a non-empty sequence of turns. *)
EarliestTimestamp(turns) ==
    CHOOSE x \in {t.timestamp : t \in Range(turns)} :
        \A t \in Range(turns) : x <= t.timestamp

LatestTimestamp(turns) ==
    CHOOSE x \in {t.timestamp : t \in Range(turns)} :
        \A t \in Range(turns) : x >= t.timestamp

(* C16: stats reports as turn count the number of stored turns; days_active
   is 0 without turns and otherwise d + 1, where d is the number of whole
   24-hour days from the earliest turn's timestamp to the time of the call,
   so it is at least 1. *)
C16_StatsCounts ==
    (resp.op = "stats" /\ resp.status = 200)
    => LET turns == StoredTurns(resp.user_id)
       IN  /\ resp.total_conversations = Len(turns)
           /\ resp.total_messages = Len(turns)
           /\ IF turns = << >>
                THEN resp.days_active = 0
                ELSE LET elapsed == resp.at - EarliestTimestamp(turns)
                     IN  /\ resp.days_active >= 1
                         /\ (resp.days_active - 1) * TicksPerDay <= elapsed
                         /\ elapsed < resp.days_active * TicksPerDay

(* Two turns were stored at different times and stats was called more than
   a day after the first of them. *)
C16_Witness ==
    /\ resp.op = "stats" /\ resp.status = 200
    /\ resp.total_conversations = 2
    /\ EarliestTimestamp(StoredTurns(resp.user_id))
          < LatestTimestamp(StoredTurns(resp.user_id))
    /\ resp.days_active = 2
    /\ resp.at > EarliestTimestamp(StoredTurns(resp.user_id)) + TicksPerDay

(* The calendar day (UTC) an instant falls on. *)
CalendarDay(t) == t \div TicksPerDay

(* The turns lie on two consecutive calendar days and stats was called on
   the second of them. *)
SpansTwoCalendarDays(r) ==
    LET turns == StoredTurns(r.user_id)
    IN  /\ turns # << >>
        /\ CalendarDay(LatestTimestamp(turns))
              = CalendarDay(EarliestTimestamp(turns)) + 1
        /\ CalendarDay(r.at) = CalendarDay(LatestTimestamp(turns))

(* C17, as claimed: stats after turns that span exactly two calendar days
   reports days_active = 2 wherever in those days the earliest turn and the
   call lie; without turns it reports 0. *)
C17_TwoCalendarDays ==
    (resp.op = "stats" /\ resp.status = 200)
    => /\ SpansTwoCalendarDays(resp) => resp.days_active = 2
       /\ StoredTurns(resp.user_id) = << >> => resp.days_active = 0

(* C17, amended: stats after turns that span two calendar days reports
   days_active = 2 when the call comes 24 hours or more after the earliest
   turn and 1 when it comes earlier; without turns it reports 0. *)
C17_TwoDaysNeedTwentyFourHours ==
    (resp.op = "stats" /\ resp.status = 200)
    => /\ SpansTwoCalendarDays(resp) =>
             resp.days_active =
                 IF resp.at - EarliestTimestamp(StoredTurns(resp.user_id))
                       >= TicksPerDay
                   THEN 2 ELSE 1
       /\ StoredTurns(resp.user_id) = << >> => resp.days_active = 0

(* The first turn at noon, the second after the next midnight, and stats
   called right after it: two calendar days, less than 24 hours. *)
C17_Witness ==
    /\ resp.op = "stats" /\ resp.status = 200
    /\ SpansTwoCalendarDays(resp)
    /\ Len(StoredTurns(resp.user_id)) = 2
    /\ resp.at - EarliestTimestamp(StoredTurns(resp.user_id)) < TicksPerDay
    /\ resp.days_active = 1

(* A step in which the handler of PUT /profile serves the request in
   slot s. *)
UpdateProfileStep(s) ==
    /\ reqs[s].pc = "authed" /\ reqs[s].op = "update_profile"
    /\ reqs'[s].pc = "idle"
    /\ resp'.op = "update_profile"

(* What an update leaves alone: the records of the other users, and in the
   caller's record user_id, email, password digest, created_at and
   is_active; last_active becomes the time of the call. *)
UpdateProfileFrame(s) ==
    LET u == reqs[s].user_id
    IN  /\ DOMAIN users_db' = DOMAIN users_db
        /\ \A v \in DOMAIN users_db : v # u => users_db'[v] = users_db[v]
        /\ users_db'[u].user_id = users_db[u].user_id
        /\ users_db'[u].email = users_db[u].email
        /\ users_db'[u].password = users_db[u].password
        /\ users_db'[u].created_at = users_db[u].created_at
        /\ users_db'[u].is_active = users_db[u].is_active
        /\ users_db'[u].last_active = now
        /\ conversations_db' = conversations_db

(* C18, as claimed: update_profile sets each of first_name, last_name and
   goals that the body provides to the provided value, leaves each omitted
   one as it was, changes nothing else of the record and then sets
   last_active to now. *)
C18_ProvidedFieldsApplied ==
    [][\A s \in Slots :
          UpdateProfileStep(s) =>
              LET u == reqs[s].user_id
              IN  /\ \A f \in {"first_name", "last_name", "fitness_goals"} :
                        users_db'[u][f] =
                            IF resp'[f] # Omitted
                              THEN resp'[f] ELSE users_db[u][f]
                  /\ UpdateProfileFrame(s)]_vars

(* C18, amended: update_profile sets each of first_name, last_name and
   goals that the body provides with a value other than null to that value,
   leaves each one that is omitted or null as it was, changes nothing else
   of the record and then sets last_active to now. *)
C18_NonNullFieldsApplied ==
    [][\A s \in Slots :
          UpdateProfileStep(s) =>
              LET u == reqs[s].user_id
              IN  /\ \A f \in {"first_name", "last_name", "fitness_goals"} :
                        users_db'[u][f] =
                            IF resp'[f] \notin {Omitted, None}
                              THEN resp'[f] ELSE users_db[u][f]
                  /\ UpdateProfileFrame(s)]_vars

(* An update gave a new first name, left the last name out and sent null
   for the goals of a user who has goals: the first name is the new one,
   the other two are as registered, and last_active is the time of the
   update. *)
C18_Witness ==
    /\ resp.op = "update_profile" /\ resp.status = 200
    /\ resp.first_name = "Alicia"
    /\ resp.last_name = Omitted
    /\ resp.fitness_goals = None
    /\ users_db[resp.user_id].first_name = "Alicia"
    /\ users_db[resp.user_id].last_name \in LastNames
    /\ users_db[resp.user_id].fitness_goals = "run 5k"
    /\ users_db[resp.user_id].last_active = resp.timestamp
    /\ users_db[resp.user_id].last_active > users_db[resp.user_id].created_at

(* C19: the last_active of a user never decreases, whatever register,
   login, chat and update-profile do, and it is never earlier than the
   user's created_at. *)
C19_LastActiveMonotone ==
    /\ [](\A u \in DOMAIN users_db :
             users_db[u].last_active >= users_db[u].created_at)
    /\ [][\A u \in DOMAIN users_db :
             /\ u \in DOMAIN users_db'
             /\ users_db'[u].last_active >= users_db[u].last_active
             /\ users_db'[u].created_at = users_db[u].created_at]_vars

(* A user who registered on the first day has chatted and was last active
   a day or more later; the clock has moved on since. *)
C19_Witness ==
    \E u \in DOMAIN users_db :
        /\ StoredTurns(u) # << >>
        /\ users_db[u].last_active >= users_db[u].created_at + TicksPerDay
        /\ users_db[u].last_active
              > StoredTurns(u)[Len(StoredTurns(u))].timestamp
        /\ now > users_db[u].last_active

(* C20, as claimed: a chat for a user id that has no record in the user
   store is accepted and its turn is stored under that id. *)
C20_UnknownUserAccepted ==
    (resp.op = "chat" /\ "user_id" \in DOMAIN resp
       /\ resp.user_id \notin DOMAIN users_db)
    => /\ resp.status = 200
       /\ StoredTurns(resp.user_id) # << >>

(* C20, amended: a chat of a user who has a record is always stored, as
   the last turn of that user's sequence; a chat whose token names a user
   id without a record is refused with 404 "User not found" and nothing is
   stored under that id, so every stored sequence belongs to a record. *)
C20_KnownUserNeverFails ==
    /\ (resp.op = "chat" /\ "user_id" \in DOMAIN resp) =>
          IF resp.user_id \in DOMAIN users_db
            THEN /\ resp.status = 200
                 /\ StoredTurns(resp.user_id) # << >>
                 /\ LET last == StoredTurns(resp.user_id)[
                                    Len(StoredTurns(resp.user_id))]
                    IN  /\ last.conversation_id = resp.conversation_id
                        /\ last.user_message = resp.message
                        /\ last.timestamp = resp.timestamp
            ELSE /\ resp.status = 404
                 /\ resp.detail = "User not found"
                 /\ StoredTurns(resp.user_id) = << >>
    /\ DOMAIN conversations_db \subseteq DOMAIN users_db

(* The account with a record has chatted, and then a chat with a token of
   good signature whose user has no record was refused. *)
C20_Witness ==
    /\ resp.op = "chat" /\ resp.status = 404
    /\ resp.user_id \notin DOMAIN users_db
    /\ \E u \in DOMAIN users_db : Len(StoredTurns(u)) >= 2

----------------------------------------------------------------------------
(* The stored password digests, and the values a result carries: its own
   fields, the claims of a token in it, the fields of the turns in it.
   Values of different kinds are compared through their printed form. *)
StoredDigests == {ToString(users_db[u].password) : u \in DOMAIN users_db}

CarriesDigest(r) == \E f \in DOMAIN r : ToString(r[f]) \in StoredDigests

(* C21: no result of register, login, profile read, profile update, chat,
   history or stats holds the stored password digest of any user, neither
   as one of its fields nor inside the token or the turns it returns. *)
C21_NoDigestReturned ==
    /\ ~CarriesDigest(resp)
    /\ "access_token" \in DOMAIN resp => ~CarriesDigest(resp.access_token)
    /\ "conversations" \in DOMAIN resp =>
          \A i \in DOMAIN resp.conversations :
             ~CarriesDigest(resp.conversations[i])

(* A user with a stored digest has read the profile and got the fields of
   the record back. *)
C21_Witness ==
    /\ resp.op = "profile" /\ resp.status = 200
    /\ resp.user_id \in DOMAIN users_db
    /\ users_db[resp.user_id].password = hash_password("Passw0rd1")
    /\ resp.email = users_db[resp.user_id].email
    /\ resp.fitness_goals = "run 5k"

----------------------------------------------------------------------------
(* C22, as claimed: a fault inside a handler is answered with an internal
   error that is none of Conflict, InvalidCredentials, NotFound or
   Forbidden, carries a correlation identifier generated for it, and shows
   nothing of the fault. *)
C22_FaultIsOpaqueWithId ==
    "raised" \in DOMAIN resp =>
       /\ resp.status \notin {401, 403, 404, 409}
       /\ resp.message # resp.raised
       /\ resp.error_id # None
       /\ resp.error_id \notin UsedUuids

----------------------------------------------------------------------------
(* The turn the last answered chat stored, and what makes its identifier a
   new one: it comes from the generator and names no user and no earlier
   turn. *)
LastTurn(u) == StoredTurns(u)[Len(StoredTurns(u))]

NewIdentifier(u) ==
    /\ LastTurn(u).conversation_id \in Range(UuidPool)
    /\ LastTurn(u).conversation_id \notin DOMAIN users_db
    /\ \A i \in 1..(Len(StoredTurns(u)) - 1) :
          StoredTurns(u)[i].conversation_id # LastTurn(u).conversation_id

ReturnedIsStored ==
    /\ resp.conversation_id = LastTurn(resp.user_id).conversation_id
    /\ resp.timestamp = LastTurn(resp.user_id).timestamp
    /\ resp.tokens_used = LastTurn(resp.user_id).tokens_used

(* C25, as claimed: the stored turn has the identifier the caller supplied,
   whatever string that is, and a new identifier only when the caller
   supplied none; the identifier, timestamp and token count returned are
   those of the stored turn. *)
C25_EverySuppliedIdKept ==
    (resp.op = "chat" /\ resp.status = 200) =>
       /\ StoredTurns(resp.user_id) # << >>
       /\ IF resp.supplied # None
            THEN LastTurn(resp.user_id).conversation_id = resp.supplied
            ELSE NewIdentifier(resp.user_id)
       /\ ReturnedIsStored

(* C25, amended: the stored turn has the identifier the caller supplied
   when that is a string other than the empty one, and a new identifier
   when the caller supplied none or the empty string; the identifier,
   timestamp and token count returned are those of the stored turn. *)
C25_NonEmptySuppliedIdKept ==
    (resp.op = "chat" /\ resp.status = 200) =>
       /\ StoredTurns(resp.user_id) # << >>
       /\ IF resp.supplied \notin {None, ""}
            THEN LastTurn(resp.user_id).conversation_id = resp.supplied
            ELSE NewIdentifier(resp.user_id)
       /\ ReturnedIsStored

(* After a chat in a named thread and a chat without identifier, a chat
   with the empty string as identifier was stored under a generated one. *)
C25_Witness ==
    /\ resp.op = "chat" /\ resp.status = 200 /\ resp.supplied = ""
    /\ Len(StoredTurns(resp.user_id)) = 3
    /\ StoredTurns(resp.user_id)[1].conversation_id = "thread-1"
    /\ StoredTurns(resp.user_id)[2].conversation_id \in Range(UuidPool)
    /\ resp.conversation_id \in Range(UuidPool)

----------------------------------------------------------------------------
(* C24: every user's conversation sequence only grows at its end: from one
   state to the next the sequence stored for a user is still stored, and
   the old sequence is a prefix of the new one, turn by turn and field by
   field; so it is between any two states, one before the other. *)
C24_AppendOnly ==
    [][\A u \in DOMAIN conversations_db :
          /\ u \in DOMAIN conversations_db'
          /\ Len(conversations_db'[u]) >= Len(conversations_db[u])
          /\ SubSeq(conversations_db'[u], 1, Len(conversations_db[u]))
               = conversations_db[u]]_vars

(* A sequence that grew three times, with turns of a named thread around a
   turn with a generated identifier. *)
C24_Witness ==
    \E u \in DOMAIN conversations_db :
       /\ Len(conversations_db[u]) = MaxTurns
       /\ conversations_db[u][1].conversation_id = "thread-1"
       /\ conversations_db[u][2].conversation_id \in Range(UuidPool)
       /\ conversations_db[u][MaxTurns].conversation_id = "thread-1"

----------------------------------------------------------------------------
(* C23: the user store only grows and the identity of a record is frozen:
   a record that is stored under an id is stored under that id in the next
   state too, with the same user_id, email, password digest and
   created_at; no step deletes a user. *)
C23_StoreGrowsIdentityFrozen ==
    [][\A u \in DOMAIN users_db :
          /\ u \in DOMAIN users_db'
          /\ users_db'[u].user_id = users_db[u].user_id
          /\ users_db'[u].email = users_db[u].email
          /\ users_db'[u].password = users_db[u].password
          /\ users_db'[u].created_at = users_db[u].created_at]_vars

(* Two records, the first of which was there when the second was stored,
   and both users have chatted since. *)
C23_Witness ==
    /\ Cardinality(DOMAIN users_db) = 2
    /\ \A u \in DOMAIN users_db :
          /\ users_db[u].user_id = u
          /\ Len(StoredTurns(u)) = 1

----------------------------------------------------------------------------
(* A step in which a register call ends in Conflict. *)
RegisterConflictStep ==
    \E e \in Emails : regLog'[e].conflict = regLog[e].conflict + 1

(* C26: a register call that ends in Conflict leaves the user store and
   the conversation store as they were: no record is added, no
   conversation sequence is created, no record is modified. *)
C26_ConflictChangesNothing ==
    [][RegisterConflictStep =>
          /\ users_db' = users_db
          /\ conversations_db' = conversations_db
          /\ issued' = issued]_vars

(* A second register call with the email of a stored record was answered
   with 409, and the store holds the one record of the first call. *)
C26_Witness ==
    /\ resp.op = "register" /\ resp.status = 409
    /\ regLog[resp.email].ok = 1 /\ regLog[resp.email].conflict = 1
    /\ DOMAIN users_db = {regLog[resp.email].user_id}
    /\ users_db[regLog[resp.email].user_id].password
         = hash_password(regLog[resp.email].password)
    /\ DOMAIN conversations_db = DOMAIN users_db

----------------------------------------------------------------------------
(* A step in which the login request of slot s is answered. *)
LoginStep(s) ==
    /\ reqs[s].pc = "parsed" /\ reqs[s].op = "login"
    /\ reqs'[s] = IdleRequest

(* C27: a login that fails, for an unknown email or a wrong password,
   changes no state, so it does not touch the last_active of the user
   whose email was given and issues no token; a login that succeeds sets
   last_active of that user to now and changes nothing else in the user
   store or the conversation store. *)
C27_LoginWrites ==
    [][\A s \in Slots :
          LoginStep(s) =>
             LET u == FindByEmail(users_db, reqs[s].email)
             IN  /\ conversations_db' = conversations_db
                 /\ IF u # None
                       /\ verify_password(reqs[s].password,
                                          users_db[u].password)
                      THEN users_db' =
                              [users_db EXCEPT ![u].last_active = now]
                      ELSE /\ users_db' = users_db
                           /\ issued' = issued]_vars

(* A registered user's login with a wrong password was refused at a later
   instant than the registration, and last_active still has the instant of
   the registration. *)
C27_Witness ==
    /\ resp.op = "login" /\ resp.status = 401
    /\ \E u \in DOMAIN users_db :
          /\ users_db[u].email = resp.email
          /\ ~verify_password(resp.password, users_db[u].password)
          /\ users_db[u].last_active = users_db[u].created_at
          /\ now > users_db[u].created_at

----------------------------------------------------------------------------
(* C28: in every reachable state the user ids that have a conversation
   sequence are the user ids of the user store: register stores the record
   and the empty sequence in one step, and a chat reaches its append only
   for an id that has a record. *)
C28_SequencesMatchRecords == DOMAIN conversations_db = DOMAIN users_db

(* A registered user who has not chatted has the empty sequence, and a chat
   for an id without a record was refused and left no sequence. *)
C28_Witness ==
    /\ resp.op = "chat" /\ resp.status = 404
    /\ resp.user_id \notin DOMAIN conversations_db
    /\ \E u \in DOMAIN users_db :
          u \in DOMAIN conversations_db /\ conversations_db[u] = << >>

----------------------------------------------------------------------------
(* The user ids named by the tokens that register and login have issued. *)
IssuedUserIds == {t.user_id : t \in issued}

(* C29: every token issued by register or login names a user id that has
   a record, when it is issued and in every state after; so a request
   that presents an issued token is never answered with 404 "User not
   found": that answer is given only for a user id no issued token
   names. *)
C29_IssuedTokenFindsUser ==
    /\ IssuedUserIds \subseteq DOMAIN users_db
    /\ \A e \in Emails :
          regLog[e].ok > 0 => regLog[e].token.user_id \in DOMAIN users_db
    /\ resp.status = 404 => resp.user_id \notin IssuedUserIds

(* A chat made with an issued token at a later instant than the
   registration was served for the user the token names. *)
C29_Witness ==
    /\ resp.op = "chat" /\ resp.status = 200
    /\ resp.user_id \in IssuedUserIds
    /\ resp.timestamp > users_db[resp.user_id].created_at

----------------------------------------------------------------------------
(* A step in which the chat request of slot s is answered by the handler. *)
ChatStep(s) ==
    /\ reqs[s].pc = "authed" /\ reqs[s].op = "chat"
    /\ reqs'[s] = IdleRequest

(* C30: a chat by user U appends exactly one turn to U's sequence and sets
   U's last_active to now; it changes no other user's sequence, no other
   user's record, and no other field of U's record. *)
C30_ChatWrites ==
    [][\A s \in Slots :
          ChatStep(s) =>
             LET u == reqs[s].user_id
             IN  /\ DOMAIN conversations_db' = DOMAIN conversations_db
                 /\ Len(conversations_db'[u]) = Len(conversations_db[u]) + 1
                 /\ SubSeq(conversations_db'[u], 1, Len(conversations_db[u]))
                      = conversations_db[u]
                 /\ \A v \in DOMAIN conversations_db \ {u} :
                       conversations_db'[v] = conversations_db[v]
                 /\ users_db' = [users_db EXCEPT ![u].last_active = now]]_vars

(* Of two users registered at the first instant, one has chatted at a later
   instant: it has one turn and that instant as last_active, the other has
   no turn and the last_active of its registration. *)
C30_Witness ==
    \E u, v \in DOMAIN users_db :
       /\ u # v
       /\ Len(StoredTurns(u)) = 1 /\ StoredTurns(v) = << >>
       /\ users_db[u].last_active = StoredTurns(u)[1].timestamp
       /\ users_db[u].last_active > users_db[u].created_at
       /\ users_db[v].last_active = users_db[v].created_at
       /\ users_db[v].created_at = users_db[u].created_at

====
